---------------------------- MODULE Spec2Model ----------------------------
(***************************************************************************)
(* Model of src/index.js: the resume printer.  extractFormattedText walks  *)
(* the pages of a PDF; for each page it groups the positioned text         *)
(* fragments into lines (by y), overlays link annotations, and then        *)
(* classifies the lines one by one, printing each with console.log.        *)
(*                                                                         *)
(* Strings are TLA+ strings; one character stands for each of the two      *)
(* control characters the code writes (ESC and BEL), so that String.length *)
(* is what the code computes.                                              *)
(***************************************************************************)
EXTENDS Integers, Sequences, FiniteSets, TLC

VARIABLES
    colour,            \* chalk emits ANSI codes (level > 0) or not (level 0)
    numPages,          \* pdf.numPages
    pageNum,           \* the page loop's counter
    pc,                \* "page" | "group" | "classify" | "done"
    annotations,       \* page.getAnnotations() of the current page
    links,             \* the usable annotations of the current page
    items,             \* content.items of the current page read so far
    lines,             \* lines of the current page
    currentLine,       \* the line being accumulated
    lastY,             \* <<y of the previous non-empty fragment>>, or NoY
    i,                 \* the classification loop's index (0-based)
    inProjects,
    inExperience,
    inEducation,
    lastProjectIndex,
    eduBuffer,
    out,               \* the console.log calls made so far
    roles,             \* what the loop did with each line of the page so far
    nread              \* fragments read so far in the whole document

vars == <<colour, numPages, pageNum, pc, annotations, links, items, lines,
          currentLine, lastY, i, inProjects, inExperience, inEducation,
          lastProjectIndex, eduBuffer, out, roles, nread>>

NoY == <<>>            \* lastY = null

-----------------------------------------------------------------------------
(* Bounds of the model *)

MaxPages == 2       \* pages of a document
MaxItems == 4       \* fragments of a document
MaxTokens == 3      \* fragments of a document whose geometry varies

-----------------------------------------------------------------------------
(* Characters and strings *)

ESC == "~"
BEL == "^"

UpperAlpha == "ABCDEFGHIJKLMNOPQRSTUVWXYZ"
LowerAlpha == "abcdefghijklmnopqrstuvwxyz"

CharAt(s, k) == SubSeq(s, k, k)

UpperChars == {CharAt(UpperAlpha, k) : k \in 1..26}
LowerChars == {CharAt(LowerAlpha, k) : k \in 1..26}
DigitChars == {"0", "1", "2", "3", "4", "5", "6", "7", "8", "9"}
SpaceChars == {" ", "\t", "\n"}

AllChars(s, set) == \A k \in 1..Len(s) : CharAt(s, k) \in set

LowerOf ==
    [c \in UpperChars |->
        CharAt(LowerAlpha, CHOOSE k \in 1..26 : CharAt(UpperAlpha, k) = c)]
UpperOf ==
    [c \in LowerChars |->
        CharAt(UpperAlpha, CHOOSE k \in 1..26 : CharAt(LowerAlpha, k) = c)]

ToLowerChar(c) == IF c \in UpperChars THEN LowerOf[c] ELSE c
ToUpperChar(c) == IF c \in LowerChars THEN UpperOf[c] ELSE c

RECURSIVE toLowerCase(_)
toLowerCase(s) ==
    IF Len(s) <= 1 THEN ToLowerChar(s)
    ELSE LET half == Len(s) \div 2
         IN  toLowerCase(SubSeq(s, 1, half)) \o toLowerCase(SubSeq(s, half + 1, Len(s)))

RECURSIVE toUpperCase(_)
toUpperCase(s) ==
    IF Len(s) <= 1 THEN ToUpperChar(s)
    ELSE LET half == Len(s) \div 2
         IN  toUpperCase(SubSeq(s, 1, half)) \o toUpperCase(SubSeq(s, half + 1, Len(s)))

startsWith(s, w) == Len(s) >= Len(w) /\ SubSeq(s, 1, Len(w)) = w

includes(s, w) ==
    \E k \in 0..(Len(s) - Len(w)) : SubSeq(s, k + 1, k + Len(w)) = w

(* index of the first occurrence of w in s (String.indexOf, 0-based), -1 if none *)
indexOf(s, w) ==
    IF includes(s, w)
    THEN CHOOSE k \in 0..(Len(s) - Len(w)) :
            /\ SubSeq(s, k + 1, k + Len(w)) = w
            /\ \A m \in 0..(k - 1) : SubSeq(s, m + 1, m + Len(w)) # w
    ELSE -1

TrimStart(s) ==
    IF AllChars(s, SpaceChars) THEN ""
    ELSE LET first == CHOOSE k \in 1..Len(s) :
                          /\ CharAt(s, k) \notin SpaceChars
                          /\ \A m \in 1..(k - 1) : CharAt(s, m) \in SpaceChars
         IN  SubSeq(s, first, Len(s))

TrimEnd(s) ==
    IF AllChars(s, SpaceChars) THEN ""
    ELSE LET last == CHOOSE k \in 1..Len(s) :
                         /\ CharAt(s, k) \notin SpaceChars
                         /\ \A m \in (k + 1)..Len(s) : CharAt(s, m) \in SpaceChars
         IN  SubSeq(s, 1, last)

trim(s) == TrimEnd(TrimStart(s))

Abs(n) == IF n < 0 THEN -n ELSE n

-----------------------------------------------------------------------------
(* chalk and the hyperlink escape *)

Chalk(open, close, s) == IF colour /\ s # "" THEN open \o s \o close ELSE s

Sgr(code) == ESC \o "[" \o code \o "m"

chalkBold(s) == Chalk(Sgr("1"), Sgr("22"), s)
chalkGray(s) == Chalk(Sgr("90"), Sgr("39"), s)
chalkWhite(s) == Chalk(Sgr("37"), Sgr("39"), s)
chalkGrayItalic(s) == Chalk(Sgr("90") \o Sgr("3"), Sgr("23") \o Sgr("39"), s)
chalkBlueUnderline(s) == Chalk(Sgr("34") \o Sgr("4"), Sgr("24") \o Sgr("39"), s)
chalkMagentaBold(s) == Chalk(Sgr("35") \o Sgr("1"), Sgr("22") \o Sgr("39"), s)
chalkCyanBoldUnderline(s) ==
    Chalk(Sgr("36") \o Sgr("1") \o Sgr("4"), Sgr("24") \o Sgr("22") \o Sgr("39"), s)
chalkYellowBoldUnderline(s) ==
    Chalk(Sgr("33") \o Sgr("1") \o Sgr("4"), Sgr("24") \o Sgr("22") \o Sgr("39"), s)

makeHyperlink(text, url) ==
    ESC \o "]8;;" \o url \o BEL \o text \o ESC \o "]8;;" \o BEL

-----------------------------------------------------------------------------
(* Utils *)

isBold(fontName) ==
    LET f == toLowerCase(fontName)
    IN  includes(f, "bold") \/ includes(f, "medium")
        \/ includes(f, "semibold") \/ includes(f, "heavy")

keywords == <<"education", "experience", "projects", "skills", "certifications">>

(* a header test that wants the keyword to be the whole text *)
isSectionHeaderExact(text) ==
    LET lower == toLowerCase(text)
    IN  \E k \in 1..Len(keywords) : lower = keywords[k]

isSectionHeader(text) ==
    LET lower == toLowerCase(text)
    IN  \E k \in 1..Len(keywords) : startsWith(lower, keywords[k])

TitleChars ==
    UpperChars \cup DigitChars \cup SpaceChars \cup {"-", "(", ")", ":"}

TitleMinLen == 5

isProjectTitle(text) ==
    text # "" /\ AllChars(text, TitleChars) /\ Len(text) > TitleMinLen

isGithubLink(text) == includes(text, "github.com")

TechStackChars == UpperChars \cup LowerChars \cup SpaceChars \cup {","}

TechStackMaxLen == 100

(* a tech-stack test whose character class has no comma *)
isTechStackNoComma(text) ==
    text # "" /\ AllChars(text, TechStackChars \ {","}) /\ Len(text) < TechStackMaxLen

isTechStack(text) ==
    text # "" /\ AllChars(text, TechStackChars) /\ Len(text) < TechStackMaxLen

skillCategories ==
    <<"Programming Languages:", "Frameworks/Libraries:", "Tools:",
      "Cloud/DevOps:", "Technological Concepts:", "Soft Skills:">>

hasSkillCategory(text) ==
    \E k \in 1..Len(skillCategories) : includes(text, skillCategories[k])

(* String.replace(key, by): the first occurrence only *)
replaceFirst(s, key, by) ==
    LET at == indexOf(s, key)
    IN  IF at < 0 THEN s
        ELSE SubSeq(s, 1, at) \o by \o SubSeq(s, at + Len(key) + 1, Len(s))

highlightSkillKey(line) ==
    IF hasSkillCategory(line)
    THEN LET k == CHOOSE n \in 1..Len(skillCategories) :
                    /\ includes(line, skillCategories[n])
                    /\ \A m \in 1..(n - 1) : ~includes(line, skillCategories[m])
             key == skillCategories[k]
         IN  replaceFirst(line, key,
                 chalkMagentaBold(replaceFirst(key, ":", "")) \o chalkWhite(":"))
    ELSE line

-----------------------------------------------------------------------------
(* formatLineWithSpacing *)

GapTab == 10
GapSpace == 5
CharWidth == 5

(* a separator that a gap of exactly 5 already earns *)
SeparatorAtFive(gap) ==
    IF gap > GapTab THEN "\t" ELSE IF gap >= GapSpace THEN " " ELSE ""

Separator(gap) ==
    IF gap > GapTab THEN "\t" ELSE IF gap > GapSpace THEN " " ELSE ""

(* lastX after an item: the width heuristic is applied to item.str *)
Advance(item) == item.x + Len(item.str) * CharWidth

ItemText(item) == IF isBold(item.fontName) THEN chalkBold(item.str) ELSE item.str

(* Array.prototype.sort with (a, b) => a.x - b.x: stable, ascending x *)
RECURSIVE InsertByX(_, _)
InsertByX(sorted, item) ==
    IF sorted = <<>> THEN <<item>>
    ELSE IF sorted[Len(sorted)].x <= item.x THEN Append(sorted, item)
    ELSE Append(InsertByX(SubSeq(sorted, 1, Len(sorted) - 1), item),
                sorted[Len(sorted)])

RECURSIVE SortByX(_)
SortByX(lineItems) ==
    IF lineItems = <<>> THEN <<>>
    ELSE InsertByX(SortByX(SubSeq(lineItems, 1, Len(lineItems) - 1)),
                   lineItems[Len(lineItems)])

RECURSIVE FormatLoop(_, _, _, _)
FormatLoop(sorted, k, lastX, output) ==
    IF k > Len(sorted) THEN output
    ELSE FormatLoop(sorted, k + 1, Advance(sorted[k]),
                    output \o Separator(sorted[k].x - lastX) \o ItemText(sorted[k]))

formatLineWithSpacing(lineItems) == trim(FormatLoop(SortByX(lineItems), 1, 0, ""))

RECURSIVE JoinRaw(_)
JoinRaw(lineItems) ==
    IF lineItems = <<>> THEN ""
    ELSE IF Len(lineItems) = 1 THEN lineItems[1].raw
    ELSE lineItems[1].raw \o " " \o JoinRaw(Tail(lineItems))

(* lineItems.map((i) => i.raw).join(" ").trim() *)
RawOf(lineItems) == trim(JoinRaw(lineItems))

-----------------------------------------------------------------------------
(* Line grouping and the link overlay *)

YThreshold == 5

(* a threshold that a distance of exactly 5 already passes *)
StartsNewLineAtThreshold(prevY, y) ==
    prevY = NoY \/ Abs(y - prevY[1]) >= YThreshold

StartsNewLine(prevY, y) == prevY = NoY \/ Abs(y - prevY[1]) > YThreshold

(* annotations.filter((ann) => ann.url && ann.rect): "" and <<>> stand for a
   missing url and a missing rect *)
Usable(ann) == ann.url # "" /\ ann.rect # <<>>

UsableLinks(anns) == SelectSeq(anns, Usable)

(* a containment test that leaves out the right and upper edges *)
InRectHalfOpen(rect, x, y) ==
    x >= rect[1] /\ x < rect[3] /\ y >= rect[2] /\ y < rect[4]

InRect(rect, x, y) ==
    x >= rect[1] /\ x <= rect[3] /\ y >= rect[2] /\ y <= rect[4]

(* links.find(...): <<the first link whose rect contains (x, y)>>, or <<>> when
   find returns undefined *)
FindLink(ls, x, y) ==
    IF \E k \in 1..Len(ls) : InRect(ls[k].rect, x, y)
    THEN <<ls[CHOOSE k \in 1..Len(ls) :
                /\ InRect(ls[k].rect, x, y)
                /\ \A m \in 1..(k - 1) : ~InRect(ls[m].rect, x, y)]>>
    ELSE <<>>

MakeToken(item, ls) ==
    LET str == trim(item.str)
        link == FindLink(ls, item.x, item.y)
    IN  [str |-> IF link # <<>>
                 THEN makeHyperlink(chalkBlueUnderline(str), link[1].url)
                 ELSE str,
         raw |-> str,
         x |-> item.x,
         y |-> item.y,
         fontName |-> item.fontName]

-----------------------------------------------------------------------------
(* The inputs: fragments (content.items entries) and annotation lists *)

Frag(str, x, y, fontName) == [str |-> str, x |-> x, y |-> y, fontName |-> fontName]

Regular == "Helvetica"
BoldFont == "Helvetica-Bold"
SemiFont == "Inter-SEMIBOLD"

LongRole == "Principal Software Engineer, Example Co."

(* The fragments of a resume, each at its own place on the page: fragments of
   different rows are more than 5 apart in y, so that two fragments read one
   after the other share a line only when they are of the same row. *)
Fragments ==
    { Frag("EDUCATION", 0, 700, BoldFont),
      Frag("Experience", 0, 680, Regular),
      Frag("PROJECTS", 0, 660, Regular),
      Frag("Skills", 0, 640, Regular),
      Frag("Projects and Experience", 0, 620, Regular),
      Frag("MY COOL PROJECT", 0, 600, Regular),
      Frag("Senior Engineer", 0, 560, BoldFont) }

EducationFragments ==
    { Frag("EDUCATION", 0, 700, BoldFont),
      Frag("Experience and Education", 0, 680, Regular),
      Frag("Skills", 0, 640, Regular),
      Frag("IIT Delhi", 0, 560, BoldFont),
      Frag("B.Tech CSE", 200, 562, Regular),
      Frag(" 2021 - 2025 ", 36, 520, Regular) }

ExperienceFragments ==
    { Frag("EXPERIENCE", 0, 680, Regular),
      Frag("Projects and Experience", 0, 620, Regular),
      Frag("Senior Engineer", 0, 560, BoldFont),
      Frag("Go, Rust", 120, 562, Regular),
      Frag(LongRole, 0, 540, SemiFont),
      Frag(" Built 3 APIs. ", 36, 520, Regular) }

ProjectFragments ==
    { Frag("PROJECTS", 0, 660, Regular),
      Frag("Skills", 0, 640, Regular),
      Frag("MY COOL PROJECT", 0, 600, Regular),
      Frag("API-2 (V1)", 0, 580, Regular),
      Frag("VERIFY: (2024)", 0, 570, Regular),
      Frag(" Built 3 APIs. ", 36, 520, Regular) }

(* a Projects section with a title, its tech-stack line, a link and a
   description, and a header in capitals *)
StackFragments ==
    { Frag("PROJECTS", 0, 660, Regular),
      Frag("SKILLS", 0, 640, Regular),
      Frag("MY COOL PROJECT", 0, 600, Regular),
      Frag("Go, Rust", 0, 590, Regular),
      Frag("github.com/om/cool", 0, 580, Regular),
      Frag(" Built 3 APIs. ", 36, 520, Regular) }

(* skill lines: a label in one token, a label in a bold token, and a label
   whose two words are two tokens of one row, far apart *)
SkillFragments ==
    { Frag("Skills", 0, 640, Regular),
      Frag("PROJECTS", 0, 660, Regular),
      Frag("Soft Skills: Go", 0, 600, Regular),
      Frag("Soft", 0, 580, Regular),
      Frag("Skills: Go", 100, 582, Regular),
      Frag("Tools: Git", 0, 560, BoldFont) }

(* fragments of little sense: white space, one character, punctuation that
   matches the title pattern, a bare host name *)
OddFragments ==
    { Frag("  ", 0, 700, Regular),
      Frag("?", 0, 680, ""),
      Frag("PROJECTS", 0, 660, Regular),
      Frag("(-): 7", 0, 640, Regular),
      Frag("github.com", 0, 620, Regular),
      Frag("Verify", 0, 600, BoldFont) }

NoAnnotations == { <<>> }

(* fragments that differ in position only, around the thresholds of the grouper
   (5), of the formatter (5 and 10 past the previous token's estimated end) and
   around the rects below; and one fragment of white space *)
LayoutFragments ==
    { Frag("ab", x, 5, Regular) : x \in {0, 15, 16, 20, 21} }
    \cup { Frag("ab", 16, y, Regular) : y \in {0, 10, 16} }
    \cup { Frag("  ", 0, 16, Regular) }

Ann(url, rect) == [url |-> url, rect |-> rect]

RectA == <<0, 0, 16, 10>>
RectB == <<15, 5, 21, 16>>
RectAll == <<0, 0, 21, 16>>

LayoutAnnotations ==
    { <<Ann("u1", RectA), Ann("u2", RectB)>>,
      <<Ann("u2", RectB), Ann("u1", RectA)>>,
      <<Ann("", RectAll), Ann("u1", RectA)>>,
      <<Ann("u3", <<>>), Ann("u2", RectB)>> }

-----------------------------------------------------------------------------
(* extractFormattedText *)

Start ==
    /\ pageNum = 1
    /\ pc = "page"
    /\ annotations = <<>>
    /\ links = <<>>
    /\ items = <<>>
    /\ lines = <<>>
    /\ currentLine = <<>>
    /\ lastY = NoY
    /\ i = 0
    /\ inProjects = FALSE
    /\ inExperience = FALSE
    /\ inEducation = FALSE
    /\ lastProjectIndex = -2
    /\ eduBuffer = <<>>
    /\ out = <<>>
    /\ roles = <<>>
    /\ nread = 0

(* a document of MaxPages pages (any of them may be empty), printed to a
   terminal for which chalk emits its codes *)
Init == Start /\ numPages = MaxPages /\ colour = TRUE

classifier == <<i, inProjects, inExperience, inEducation, lastProjectIndex,
                eduBuffer>>
grouper == <<annotations, links, items, lines, currentLine, lastY, nread>>

(* the head of the page loop: the page, its content and its annotations arrive *)
GetPageFrom(annotationLists) ==
    /\ pc = "page"
    /\ pageNum <= numPages
    /\ \E anns \in annotationLists :
          /\ annotations' = anns
          /\ links' = UsableLinks(anns)
    /\ items' = <<>>
    /\ lines' = <<>>
    /\ currentLine' = <<>>
    /\ lastY' = NoY
    /\ pc' = "group"
    /\ UNCHANGED <<colour, numPages, pageNum, classifier, out, roles, nread>>

(* a turn in which a fragment that trims to "" still moves lastY *)
ReadItemBlankMovesY(fragments, bound) ==
    /\ pc = "group"
    /\ nread < bound
    /\ \E item \in fragments :
          /\ items' = Append(items, item)
          /\ IF trim(item.str) = ""
             THEN UNCHANGED <<lines, currentLine>>
             ELSE IF StartsNewLine(lastY, item.y)
                  THEN /\ lines' = IF Len(currentLine) > 0
                                   THEN Append(lines, currentLine) ELSE lines
                       /\ currentLine' = <<MakeToken(item, links)>>
                  ELSE /\ lines' = lines
                       /\ currentLine' = Append(currentLine, MakeToken(item, links))
          /\ lastY' = <<item.y>>
    /\ nread' = nread + 1
    /\ UNCHANGED <<colour, numPages, pageNum, pc, annotations, links,
                   classifier, out, roles>>

(* one turn of the loop over content.items: a fragment that trims to "" is
   passed over, any other one is put on a line *)
ReadItemFrom(fragments, bound) ==
    /\ pc = "group"
    /\ nread < bound
    /\ \E item \in fragments :
          /\ items' = Append(items, item)
          /\ IF trim(item.str) = ""
             THEN UNCHANGED <<lines, currentLine, lastY>>
             ELSE /\ IF StartsNewLine(lastY, item.y)
                     THEN /\ lines' = IF Len(currentLine) > 0
                                      THEN Append(lines, currentLine) ELSE lines
                          /\ currentLine' = <<MakeToken(item, links)>>
                     ELSE /\ lines' = lines
                          /\ currentLine' = Append(currentLine, MakeToken(item, links))
                  /\ lastY' = <<item.y>>
    /\ nread' = nread + 1
    /\ UNCHANGED <<colour, numPages, pageNum, pc, annotations, links,
                   classifier, out, roles>>

(* content.items is exhausted: the last line is flushed and the classifier's
   variables are initialised *)
EndItems ==
    /\ pc = "group"
    /\ lines' = IF Len(currentLine) > 0 THEN Append(lines, currentLine) ELSE lines
    /\ inProjects' = FALSE
    /\ inExperience' = FALSE
    /\ inEducation' = FALSE
    /\ lastProjectIndex' = -2
    /\ eduBuffer' = <<>>
    /\ i' = 0
    /\ roles' = <<>>
    /\ pc' = "classify"
    /\ UNCHANGED <<colour, numPages, pageNum, annotations, links, items,
                   currentLine, lastY, out, nread>>

-----------------------------------------------------------------------------
(* The classification loop: one turn per line *)

EntersProjects(rawLine) == includes(toLowerCase(rawLine), "project")
EntersExperience(rawLine) == includes(toLowerCase(rawLine), "experience")
EntersEducation(rawLine) == includes(toLowerCase(rawLine), "education")

EduPairLen == 2

(* a push at the front of the buffer, which would swap title and subtitle *)
EduPushFront(buffer, formattedLine) == <<formattedLine>> \o buffer

(* eduBuffer.push(formattedLine) *)
EduPush(buffer, formattedLine) == Append(buffer, formattedLine)

(* a flush that waits for a third entry *)
EduFullAtThree(buffer) == Len(buffer) = EduPairLen + 1

EduFull(buffer) == Len(buffer) = EduPairLen

EduPairText(title, subtitle) ==
    chalkBold(trim(title)) \o "\n" \o chalkGray("\t" \o trim(subtitle)) \o "\n"

ExpTitleMaxLen == 40

(* a title test that forgets to count the tokens *)
IsExperienceTitleAnyLength(lineItems, rawLine) ==
    /\ isBold(lineItems[1].fontName)
    /\ Len(rawLine) < ExpTitleMaxLen

IsExperienceTitle(lineItems, rawLine) ==
    /\ isBold(lineItems[1].fontName)
    /\ Len(lineItems) = 1
    /\ Len(rawLine) < ExpTitleMaxLen

(* a guard that lets a title follow a title *)
TitleAllowedNext(index, lastIndex) == index - lastIndex > 0

TitleAllowed(index, lastIndex) == index - lastIndex > 1

(* a title branch that forgets to record its index *)
TitleIndexStale(branch, index, lastIndex) == lastIndex

(* lastProjectIndex = i, in the project-title branch only *)
TitleIndexAfter(branch, index, lastIndex) ==
    IF branch = "projTitle" THEN index ELSE lastIndex

(* the section whose rules a non-header line meets: the branches test
   inEducation, then inExperience, then inProjects *)
CurrentSection ==
    IF inEducation THEN "Education"
    ELSE IF inExperience THEN "Experience"
    ELSE IF inProjects THEN "Projects"
    ELSE "None"

IsVerify(rawLine) == includes(toLowerCase(rawLine), "verify")

(* the branch of the loop body that a line takes; lineItems is the line as
   formatLineWithSpacing has left it, sorted in place *)
Branch(rawLine, lineItems) ==
    IF rawLine = "" THEN "empty"
    ELSE IF isSectionHeader(rawLine) THEN "header"
    ELSE IF inEducation THEN "education"
    ELSE IF inExperience
         THEN IF IsExperienceTitle(lineItems, rawLine)
              THEN "expTitle" ELSE "expLine"
    ELSE IF inProjects /\ isProjectTitle(rawLine)
            /\ TitleAllowed(i, lastProjectIndex) THEN "projTitle"
    ELSE IF inProjects /\ isGithubLink(rawLine) THEN "github"
    ELSE IF inProjects /\ isTechStack(rawLine) THEN "techStack"
    ELSE IF ~inProjects /\ hasSkillCategory(rawLine) THEN "skill"
    ELSE IF IsVerify(rawLine) THEN "verify"
    ELSE "default"

(* one console.log call: the statement that made it, its argument, and the
   page and line being classified *)
Log(call, text) == [call |-> call, text |-> text, page |-> pageNum, line |-> i]

(* the lookahead of the default branch reads the next line's raw text *)
NextIsTitle ==
    /\ inProjects
    /\ i + 1 < Len(lines)
    /\ isProjectTitle(RawOf(lines[i + 2]))

(* the console.log calls of a turn that takes `branch` *)
Emissions(branch, rawLine, formattedLine) ==
    CASE branch = "empty" -> <<>>
      [] branch = "header" ->
            <<Log("header", "\n" \o chalkYellowBoldUnderline(toUpperCase(rawLine)))>>
      [] branch = "education" ->
            LET buffer == EduPush(eduBuffer, formattedLine)
            IN  IF EduFull(buffer)
                THEN <<Log("eduPair", EduPairText(buffer[1], buffer[2]))>>
                ELSE <<>>
      [] branch = "expTitle" ->
            <<Log("expTitle", "\n" \o chalkCyanBoldUnderline(rawLine))>>
      [] branch = "expLine" -> <<Log("expLine", formattedLine)>>
      [] branch = "projTitle" ->
            <<Log("blank", ""),
              Log("projTitle", chalkCyanBoldUnderline(formattedLine))>>
      [] branch = "github" -> <<Log("github", formattedLine)>>
      [] branch = "techStack" -> <<Log("techStack", chalkGrayItalic(formattedLine))>>
      [] branch = "skill" -> <<Log("skill", highlightSkillKey(formattedLine))>>
      [] branch = "verify" -> <<Log("verify", formattedLine)>>
      [] branch = "default" ->
            IF NextIsTitle
            THEN <<Log("default", formattedLine), Log("blank", "")>>
            ELSE <<Log("default", formattedLine)>>

(* eduBuffer after a turn that takes `branch` *)
EduBufferAfter(branch, formattedLine) ==
    CASE branch = "header" -> <<>>
      [] branch = "education" ->
            LET buffer == EduPush(eduBuffer, formattedLine)
            IN  IF EduFull(buffer) THEN <<>> ELSE buffer
      [] OTHER -> eduBuffer

(* one turn of the loop over lines: the line is formatted (and so sorted in
   place), takes its branch, and the loop moves on *)
Classify ==
    /\ pc = "classify"
    /\ i < Len(lines)
    /\ LET lineItems == lines[i + 1]
           rawLine == RawOf(lineItems)
           formattedLine == formatLineWithSpacing(lineItems)
           sorted == SortByX(lineItems)
           branch == Branch(rawLine, sorted)
       IN  /\ lines' = [lines EXCEPT ![i + 1] = sorted]
           /\ out' = out \o Emissions(branch, rawLine, formattedLine)
           /\ inProjects' =
                 IF branch = "header" THEN EntersProjects(rawLine) ELSE inProjects
           /\ inExperience' =
                 IF branch = "header" THEN EntersExperience(rawLine) ELSE inExperience
           /\ inEducation' =
                 IF branch = "header" THEN EntersEducation(rawLine) ELSE inEducation
           /\ eduBuffer' = EduBufferAfter(branch, formattedLine)
           /\ lastProjectIndex' = TitleIndexAfter(branch, i, lastProjectIndex)
           /\ roles' = Append(roles, [branch |-> branch,
                                      section |-> CurrentSection,
                                      raw |-> rawLine,
                                      formatted |-> formattedLine])
    /\ i' = i + 1
    /\ UNCHANGED <<colour, numPages, pageNum, pc, annotations, links, items,
                   currentLine, lastY, nread>>

(* a page loop that moves on while lines of the page are still to be classified *)
EndPageEarly ==
    /\ pc = "classify"
    /\ pageNum' = pageNum + 1
    /\ pc' = "page"
    /\ UNCHANGED <<colour, numPages, grouper, classifier, out, roles>>

(* a page loop that forgets to advance its counter *)
EndPageSamePage ==
    /\ pc = "classify"
    /\ i >= Len(lines)
    /\ pc' = "page"
    /\ UNCHANGED <<colour, numPages, pageNum, grouper, classifier, out, roles>>

(* the classification loop ends and the page loop moves on *)
EndPage ==
    /\ pc = "classify"
    /\ i >= Len(lines)
    /\ pageNum' = pageNum + 1
    /\ pc' = "page"
    /\ UNCHANGED <<colour, numPages, grouper, classifier, out, roles>>

(* the page loop ends *)
Finish ==
    /\ pc = "page"
    /\ pageNum > numPages
    /\ pc' = "done"
    /\ UNCHANGED <<colour, numPages, pageNum, grouper, classifier, out, roles>>

(* the program on a document whose fragments come from `fragments` (at most
   `bound` of them) and whose pages' annotations come from `annotationLists` *)
NextOver(fragments, annotationLists, bound) ==
    \/ GetPageFrom(annotationLists)
    \/ ReadItemFrom(fragments, bound)
    \/ EndItems
    \/ Classify
    \/ EndPage
    \/ Finish

Next == NextOver(Fragments, NoAnnotations, MaxItems)
NextEducation == NextOver(EducationFragments, NoAnnotations, MaxItems)
NextExperience == NextOver(ExperienceFragments, NoAnnotations, MaxItems)
NextProjects == NextOver(ProjectFragments, NoAnnotations, MaxItems)
NextStack == NextOver(StackFragments, NoAnnotations, MaxItems)
NextSkills == NextOver(SkillFragments, NoAnnotations, MaxItems)
NextOdd == NextOver(OddFragments, NoAnnotations, MaxItems)
NextLayout == NextOver(LayoutFragments, LayoutAnnotations, MaxTokens)

(* a resume with every kind of section header *)
Spec == Init /\ [][Next]_vars
(* resumes with education, experience and project entries *)
SpecEducation == Init /\ [][NextEducation]_vars
SpecExperience == Init /\ [][NextExperience]_vars
SpecProjects == Init /\ [][NextProjects]_vars
SpecStack == Init /\ [][NextStack]_vars
(* a resume with skill lines *)
SpecSkills == Init /\ [][NextSkills]_vars
(* the condition of the classification loop: a turn can be taken, since the
   rest of Classify gives every variable its next value *)
CanClassify == pc = "classify" /\ i < Len(lines)

(* the run to completion: the page's content and annotations are delivered
   (the awaits of the page loop resolve), content.items comes to its end, and
   the loops are not suspended anywhere else, so each loop takes the turn it
   can take.  The fairness of Classify is weak fairness written out, with the
   loop's condition for ENABLED <<Classify>>_vars. *)
SpecLive ==
    /\ Init
    /\ [][NextOdd]_vars
    /\ WF_vars(GetPageFrom(NoAnnotations))
    /\ WF_vars(EndItems)
    /\ (<>[]CanClassify => []<><<Classify>>_vars)
    /\ WF_vars(EndPage)
    /\ WF_vars(Finish)
(* one page of fragments and annotations that differ in geometry, with and
   without chalk's codes (the terminal decides) *)
InitLayout == Start /\ numPages = 1 /\ colour \in BOOLEAN
SpecLayout == InitLayout /\ [][NextLayout]_vars

-----------------------------------------------------------------------------
(* What the claims speak of.  roles[n] is the n-th line of the current page
   (line n - 1 of the loop) while pc = "classify". *)

(* the console.log calls made for lines first..last of the current page *)
LogOfLines(first, last) ==
    SelectSeq(out, LAMBDA e : e.page = pageNum /\ e.line >= first /\ e.line <= last)

LogOfLine(line) == LogOfLines(line, line)

IsHeaderRole(n) == roles[n].branch = "header"

(* the header that ends the section opened by header h, or Len(roles) + 1 *)
SectionEnd(h) ==
    IF \E e \in (h + 1)..Len(roles) : IsHeaderRole(e)
    THEN CHOOSE e \in (h + 1)..Len(roles) :
            /\ IsHeaderRole(e)
            /\ \A m \in (h + 1)..(e - 1) : ~IsHeaderRole(m)
    ELSE Len(roles) + 1

OpensEducation(h) ==
    IsHeaderRole(h) /\ includes(toLowerCase(roles[h].raw), "education")

-----------------------------------------------------------------------------
(* C1: in an Education section with k non-header lines, exactly k \div 2 pairs
   are printed, the j-th made of line 2j-1 (title) and line 2j (subtitle), in
   order, and nothing else is printed for the section's lines; an odd last
   line stays in the buffer, is printed by no step, and the buffer is empty at
   the section's end exactly when k is even. *)
EducationPairing ==
    pc = "classify" =>
        \A h \in 1..Len(roles) :
            OpensEducation(h) =>
                LET e == SectionEnd(h)
                    k == e - h - 1
                    log == LogOfLines(h, e - 2)
                IN  /\ Len(log) = k \div 2
                    /\ \A j \in 1..(k \div 2) :
                          log[j] = [call |-> "eduPair",
                                    text |-> EduPairText(roles[h + 2 * j - 1].formatted,
                                                         roles[h + 2 * j].formatted),
                                    page |-> pageNum,
                                    line |-> h + 2 * j - 1]
                    /\ e = Len(roles) + 1 =>
                          /\ (eduBuffer = <<>>) <=> (k % 2 = 0)
                          /\ k % 2 = 1 => eduBuffer = <<roles[h + k].formatted>>

(* a page ends in an Education section of three lines: one pair was printed and
   the third line is left in the buffer *)
EducationOddLineLeft ==
    /\ pc = "classify"
    /\ i = Len(lines)
    /\ \E h \in 1..Len(roles) :
          /\ OpensEducation(h)
          /\ SectionEnd(h) = Len(roles) + 1
          /\ Len(roles) - h = 3
          /\ Len(LogOfLines(h, Len(roles))) = 1
          /\ Len(eduBuffer) = 1

-----------------------------------------------------------------------------
(* C2: the lines printed as project titles (a blank line, then the title
   style) never have adjacent indices: of two consecutive lines that match the
   title pattern at most one is printed as a title. *)
TitlesNeverAdjacent ==
    \A a, b \in 1..Len(out) :
        (/\ out[a].call = "projTitle"
         /\ out[b].call = "projTitle"
         /\ out[a].page = out[b].page) => out[b].line # out[a].line + 1

(* three consecutive lines of a Projects section match the title pattern: the
   first and the third were printed as titles, the second was not *)
TitleDemotedThenTitle ==
    /\ pc = "classify"
    /\ \E n \in 1..(Len(roles) - 2) :
          /\ \A m \in n..(n + 2) : isProjectTitle(roles[m].raw) /\ ~IsHeaderRole(m)
          /\ roles[n].branch = "projTitle"
          /\ roles[n + 1].branch # "projTitle"
          /\ roles[n + 2].branch = "projTitle"

(* the second of two consecutive title-pattern lines of a Projects section, the
   first of which was printed as a title: roles[n + 1], which is line n *)
DemotedAt(n) ==
    /\ n + 1 <= Len(roles)
    /\ roles[n].branch = "projTitle"
    /\ isProjectTitle(roles[n + 1].raw)
    /\ ~IsHeaderRole(n + 1)

(* C3, as claimed: the demoted line is printed as its plain formatted line,
   with no styling at all. *)
DemotedIsPlain ==
    pc = "classify" =>
        \A n \in 1..Len(roles) :
            DemotedAt(n) =>
                /\ Len(LogOfLine(n)) >= 1
                /\ LogOfLine(n)[1].text = roles[n + 1].formatted

LettersCommasSpaces == UpperChars \cup LowerChars \cup SpaceChars \cup {","}

(* C3, amended: the demoted line is not printed as a title; it is printed as a
   muted-italic tech-stack line when its raw text is made of letters, commas
   and white space only and is shorter than 100 characters, and as its plain
   formatted line otherwise. *)
DemotedFallsThrough ==
    pc = "classify" =>
        \A n \in 1..Len(roles) :
            DemotedAt(n) =>
                LET log == LogOfLine(n)
                    raw == roles[n + 1].raw
                IN  /\ Len(log) >= 1
                    /\ \A k \in 1..Len(log) : log[k].call # "projTitle"
                    /\ log[1].text =
                          IF AllChars(raw, LettersCommasSpaces) /\ Len(raw) < 100
                          THEN chalkGrayItalic(roles[n + 1].formatted)
                          ELSE roles[n + 1].formatted

(* a demoted line made of capital letters was printed muted and italic *)
DemotedPrintedAsTechStack ==
    /\ pc = "classify"
    /\ \E n \in 1..Len(roles) :
          /\ DemotedAt(n)
          /\ roles[n + 1].branch = "techStack"
          /\ LogOfLine(n)[1].text = chalkGrayItalic(roles[n + 1].formatted)
          /\ LogOfLine(n)[1].text # roles[n + 1].formatted

-----------------------------------------------------------------------------
(* C4, as claimed: at most one of the Education, Experience and Projects
   sub-states is active at any time. *)
OneSectionActive ==
    /\ ~(inProjects /\ inExperience)
    /\ ~(inProjects /\ inEducation)
    /\ ~(inExperience /\ inEducation)

(* C5, as claimed: the section changes only in the turn of a section-header
   line, so that it carries over from one page to the next. *)
SectionChangesOnlyAtHeader ==
    [][ <<inProjects, inExperience, inEducation>>'
          # <<inProjects, inExperience, inEducation>>
        => /\ pc = "classify"
           /\ i < Len(lines)
           /\ isSectionHeader(RawOf(lines[i + 1])) ]_vars

(* the section that the keyword at the start of a header names *)
KeywordSection(rawLine) ==
    LET lower == toLowerCase(rawLine)
    IN  IF startsWith(lower, "projects") THEN "Projects"
        ELSE IF startsWith(lower, "experience") THEN "Experience"
        ELSE IF startsWith(lower, "education") THEN "Education"
        ELSE "None"

(* C6, as claimed: after a header the section in effect is the one named by
   the keyword the header starts with, whatever else the header says. *)
HeaderKeywordDecidesSection ==
    (pc = "classify" /\ Len(roles) >= 1 /\ IsHeaderRole(Len(roles)))
        => CurrentSection = KeywordSection(roles[Len(roles)].raw)

-----------------------------------------------------------------------------
(* The grouper's input and output while the lines are as the grouper left
   them: the fragments read so far that do not trim to "", and the lines
   (the one being accumulated last). *)

Tokens == SelectSeq(items, LAMBDA item : trim(item.str) # "")

Grouped ==
    IF pc = "group" /\ currentLine # <<>> THEN Append(lines, currentLine) ELSE lines

RECURSIVE Flatten(_)
Flatten(ls) == IF ls = <<>> THEN <<>> ELSE Head(ls) \o Flatten(Tail(ls))

(* the positions, among the tokens in order, at which the lines of ls start *)
LineStarts(ls) == { Len(Flatten(SubSeq(ls, 1, n - 1))) + 1 : n \in 1..Len(ls) }

(* C7: a line starts at token k exactly when k is the first token of the page
   or its y is more than 5 away from the y of the token just before it; the
   lines hold the tokens in order, so that rows of tokens within 5 of each
   other, more than 5 apart from the next row, come out one line per row. *)
LineStartsAtYJumps ==
    (pc = "group" \/ (pc = "classify" /\ i = 0)) =>
        LET flat == Flatten(Grouped)
        IN  /\ Len(flat) = Len(Tokens)
            /\ \A k \in 1..Len(flat) :
                  /\ flat[k].raw = trim(Tokens[k].str)
                  /\ flat[k].x = Tokens[k].x
                  /\ flat[k].y = Tokens[k].y
            /\ \A n \in 1..Len(Grouped) : Grouped[n] # <<>>
            /\ LineStarts(Grouped) =
                  { k \in 1..Len(Tokens) :
                        k = 1 \/ Abs(Tokens[k].y - Tokens[k - 1].y) > 5 }

(* three tokens came out as two lines: two tokens exactly 5 apart in y share a
   line, and the third, more than 5 from the one before it, starts the next *)
TwoRowsGrouped ==
    /\ pc = "classify"
    /\ i = 0
    /\ Len(Tokens) = 3
    /\ Len(lines) = 2
    /\ Len(lines[1]) = 2
    /\ Abs(lines[1][1].y - lines[1][2].y) = 5
    /\ Abs(lines[2][1].y - lines[1][2].y) > 5

(* the annotations of the page, in order, that have a url and a rect that
   contains (x, y), edges included *)
Containing(x, y) ==
    { k \in 1..Len(annotations) :
        /\ annotations[k].url # ""
        /\ annotations[k].rect # <<>>
        /\ annotations[k].rect[1] <= x /\ x <= annotations[k].rect[3]
        /\ annotations[k].rect[2] <= y /\ y <= annotations[k].rect[4] }

Least(set) == CHOOSE k \in set : \A m \in set : k <= m

AllTokens == Flatten(lines) \o currentLine

(* C8: a token is linked exactly when a usable annotation of its page contains
   its origin, edges included, and the link is the url of the first such
   annotation in annotation order. *)
LinkedIffInsideUsableRect ==
    \A k \in 1..Len(AllTokens) :
        LET t == AllTokens[k]
            hits == Containing(t.x, t.y)
        IN  t.str = IF hits = {}
                    THEN t.raw
                    ELSE makeHyperlink(chalkBlueUnderline(t.raw),
                                       annotations[Least(hits)].url)

(* a token on an edge of both rects carries the url of the annotation listed
   first, although the other rect contains it too *)
FirstOfTwoLinks ==
    /\ Len(annotations) = 2
    /\ \E k \in 1..Len(AllTokens) :
          LET t == AllTokens[k]
          IN  /\ Containing(t.x, t.y) = {1, 2}
              /\ t.x = annotations[2].rect[3]
              /\ t.y = annotations[1].rect[2]
              /\ t.str = makeHyperlink(chalkBlueUnderline(t.raw), annotations[1].url)

(* the formatter as claimed: lastX advances by 5 for each character of the
   token's text *)
RECURSIVE ClaimedLoop(_, _, _, _)
ClaimedLoop(sorted, k, lastX, output) ==
    IF k > Len(sorted) THEN output
    ELSE LET gap == sorted[k].x - lastX
             separator == IF gap > 10 THEN "\t" ELSE IF gap > 5 THEN " " ELSE ""
         IN  ClaimedLoop(sorted, k + 1, sorted[k].x + 5 * Len(sorted[k].raw),
                         output \o separator \o ItemText(sorted[k]))

(* C9, as claimed: the separators of a formatted line are those of a walk in
   which the advance depends on the token's text only, linked or not. *)
SeparatorsIgnoreLinks ==
    pc = "classify" =>
        \A n \in 1..Len(roles) :
            roles[n].formatted = trim(ClaimedLoop(SortByX(lines[n]), 1, 0, ""))

-----------------------------------------------------------------------------
(* C10: in an Experience section every non-header line is printed by exactly
   one call: as a title (a blank line, then the raw text in the title style)
   exactly when the line is a single token in a bold-class font whose raw text
   is shorter than 40 characters, and as its formatted line otherwise.  The
   lines "EXPERIENCE" and "Senior Engineer" (one bold token) come out as the
   header, a blank line, and the title. *)
ExperienceLines ==
    pc = "classify" =>
        /\ \A n \in 1..Len(roles) :
              (~IsHeaderRole(n) /\ roles[n].section = "Experience") =>
                  LET log == LogOfLine(n - 1)
                      title == /\ Len(lines[n]) = 1
                               /\ isBold(lines[n][1].fontName)
                               /\ Len(roles[n].raw) < 40
                  IN  /\ Len(log) = 1
                      /\ log[1].text = IF title
                                       THEN "\n" \o chalkCyanBoldUnderline(roles[n].raw)
                                       ELSE roles[n].formatted
        /\ (/\ Len(roles) >= 2
            /\ roles[1].raw = "EXPERIENCE"
            /\ roles[2].raw = "Senior Engineer"
            /\ Len(lines[2]) = 1
            /\ isBold(lines[2][1].fontName))
           => LogOfLines(0, 1) =
                 << [call |-> "header", page |-> pageNum, line |-> 0,
                     text |-> "\n" \o chalkYellowBoldUnderline("EXPERIENCE")],
                    [call |-> "expTitle", page |-> pageNum, line |-> 1,
                     text |-> "\n" \o chalkCyanBoldUnderline("Senior Engineer")] >>

(* the page "EXPERIENCE", "Senior Engineer", and then a line of two tokens that
   starts with the same bold token: a title and a formatted line were printed *)
ExperienceTitleThenLine ==
    /\ pc = "classify"
    /\ Len(roles) = 3
    /\ roles[1].raw = "EXPERIENCE"
    /\ roles[2].branch = "expTitle"
    /\ roles[2].raw = "Senior Engineer"
    /\ roles[3].branch = "expLine"
    /\ Len(lines[3]) = 2
    /\ isBold(lines[3][1].fontName)
    /\ Len(LogOfLines(0, 2)) = 3

-----------------------------------------------------------------------------
(* the texts of a sequence of console.log calls *)
TextsOf(log) == [k \in 1..Len(log) |-> log[k].text]

(* roles[n] is a line of a Projects section that matches the title pattern and
   whose previous line was not printed as a project title *)
FreshTitleAt(n) ==
    /\ ~isSectionHeader(roles[n].raw)
    /\ roles[n].section = "Projects"
    /\ AllChars(roles[n].raw, TitleChars) /\ Len(roles[n].raw) > 5
    /\ (n = 1 \/ roles[n - 1].branch # "projTitle")

(* C11: in a Projects section a line that matches the title pattern, after a
   line that was not printed as a project title, is printed as a blank line and
   then the line in the title style; when the next line of the section is made
   of letters, commas and white space only and is shorter than 100 characters,
   it is printed next, muted and italic, with no blank line in between.  "MY
   COOL PROJECT" and then "Go, Rust" give a blank line, the title and the
   muted-italic line. *)
TitleThenTechStack ==
    pc = "classify" =>
        /\ \A n \in 1..Len(roles) :
              FreshTitleAt(n) =>
                  /\ TextsOf(LogOfLine(n - 1)) =
                        <<"", chalkCyanBoldUnderline(roles[n].formatted)>>
                  /\ (/\ n + 1 <= Len(roles)
                      /\ ~isSectionHeader(roles[n + 1].raw)
                      /\ AllChars(roles[n + 1].raw, LettersCommasSpaces)
                      /\ Len(roles[n + 1].raw) < 100)
                     => TextsOf(LogOfLines(n - 1, n)) =
                           <<"", chalkCyanBoldUnderline(roles[n].formatted),
                             chalkGrayItalic(roles[n + 1].formatted)>>
        /\ (/\ Len(roles) >= 3
            /\ toLowerCase(roles[1].raw) = "projects"
            /\ roles[2].raw = "MY COOL PROJECT"
            /\ roles[3].raw = "Go, Rust")
           => TextsOf(LogOfLines(1, 2)) =
                 <<"", chalkCyanBoldUnderline("MY COOL PROJECT"),
                   chalkGrayItalic("Go, Rust")>>

(* the page "PROJECTS", "MY COOL PROJECT", "Go, Rust" was printed: the title
   after a blank line, then the tech-stack line *)
TitleThenGoRust ==
    /\ pc = "classify"
    /\ Len(roles) = 3
    /\ roles[1].raw = "PROJECTS"
    /\ roles[2].raw = "MY COOL PROJECT"
    /\ roles[3].raw = "Go, Rust"
    /\ FreshTitleAt(2)
    /\ Len(LogOfLines(1, 2)) = 3
    /\ LogOfLines(1, 2)[3].text # "Go, Rust"

-----------------------------------------------------------------------------
(* a category label as it is re-styled: its words, then the colon *)
RestyledLabel(key) ==
    chalkMagentaBold(SubSeq(key, 1, Len(key) - 1)) \o chalkWhite(":")

(* C12, as claimed: a line met by the generic rules (no Education, Experience
   or Projects rules in effect) whose raw text contains a category label is
   printed with that label re-styled in place and the rest of the formatted
   line as it was, however the label is split over tokens. *)
SkillLabelRestyled ==
    pc = "classify" =>
        \A n \in 1..Len(roles) :
            (/\ ~isSectionHeader(roles[n].raw)
             /\ roles[n].section = "None"
             /\ \E k \in 1..Len(skillCategories) :
                    includes(roles[n].raw, skillCategories[k]))
            => /\ Len(LogOfLine(n - 1)) = 1
               /\ \E k \in 1..Len(skillCategories), at \in 0..Len(roles[n].formatted) :
                     LET key == skillCategories[k]
                         formatted == roles[n].formatted
                     IN  /\ includes(roles[n].raw, key)
                         /\ LogOfLine(n - 1)[1].text =
                               SubSeq(formatted, 1, at) \o RestyledLabel(key)
                               \o SubSeq(formatted, at + Len(key) + 1, Len(formatted))

-----------------------------------------------------------------------------
(* the console.log calls of a log that print a text (not console.log()) *)
TextCalls(log) == SelectSeq(log, LAMBDA e : e.text # "")

(* C13: classification is serial.  The calls are made in page order and, within
   a page, in line order; no call is made for a page before its lines are being
   classified, and a page is left only when all its lines have been through the
   loop, one at a time in order; a line that is not a header and is outside an
   Education section is printed by exactly one call with a text. *)
SerialEmission ==
    /\ \A a, b \in 1..Len(out) :
          a < b => \/ out[a].page < out[b].page
                   \/ out[a].page = out[b].page /\ out[a].line <= out[b].line
    /\ \A a \in 1..Len(out) :
          \/ out[a].page < pageNum
          \/ out[a].page = pageNum /\ pc = "classify" /\ out[a].line < i
    /\ (pc \in {"page", "done"} /\ pageNum > 1) => Len(roles) = Len(lines)
    /\ pc = "classify" =>
          /\ Len(roles) = i
          /\ i <= Len(lines)
          /\ \A n \in 1..Len(roles) :
                (~isSectionHeader(roles[n].raw) /\ roles[n].section # "Education")
                    => Len(TextCalls(LogOfLine(n - 1))) = 1

(* the second page is being classified after a first page of three lines, among
   them a title (a blank line and a text) and a line followed by a blank line *)
SecondPageAfterFirst ==
    /\ pc = "classify"
    /\ pageNum = 2
    /\ i = 1
    /\ Len(out) >= 6
    /\ out[Len(out)].page = 2
    /\ \E a, b \in 1..Len(out) :
          /\ out[a].page = 1 /\ out[a].call = "projTitle"
          /\ out[b].page = 1 /\ out[b].call = "default"
          /\ out[b + 1].text = "" /\ out[b + 1].line = out[b].line

-----------------------------------------------------------------------------
(* C14: the education buffer never holds more than 2 entries, and between two
   lines it holds 0 or 1: a header's turn clears it; an Education line's turn
   either leaves one entry in it (it was empty, and nothing is printed) or,
   reaching two, prints the pair and clears it; no other turn touches it. *)
EduBufferBounded ==
    /\ [](Len(eduBuffer) <= 1)
    /\ [][ (pc = "classify" /\ i' = i + 1) =>
              LET raw == RawOf(lines[i + 1])
                  formatted == formatLineWithSpacing(lines[i + 1])
              IN  IF isSectionHeader(raw) THEN eduBuffer' = <<>>
                  ELSE IF ~inEducation THEN eduBuffer' = eduBuffer
                  ELSE IF eduBuffer = <<>>
                       THEN eduBuffer' = <<formatted>> /\ out' = out
                  ELSE /\ Len(eduBuffer \o <<formatted>>) = 2
                       /\ eduBuffer' = <<>>
                       /\ Len(out') = Len(out) + 1
                       /\ out'[Len(out')].text =
                             chalkBold(trim(eduBuffer[1])) \o "\n"
                             \o chalkGray("\t" \o trim(formatted)) \o "\n" ]_vars

(* an Education section of one line was closed by a header: the line that was
   waiting in the buffer is gone and nothing was printed for it *)
HeaderClearedOddLine ==
    /\ pc = "classify"
    /\ Len(roles) >= 3
    /\ LET n == Len(roles)
       IN  /\ OpensEducation(n - 2)
           /\ roles[n - 1].branch = "education"
           /\ IsHeaderRole(n)
           /\ LogOfLine(n - 2) = <<>>
    /\ eduBuffer = <<>>

-----------------------------------------------------------------------------
(* what a line exposes of a fragment: its trimmed text, place and font *)
Exposed(str, x, y, fontName) == [raw |-> str, x |-> x, y |-> y, fontName |-> fontName]

(* C15: the lines of a page partition its fragments with a non-empty trimmed
   text: put end to end in order, the lines are those fragments in their
   original order, each once; no line is empty; a fragment that trims to ""
   is in no line and leaves lastY as it was. *)
LinesPartitionTokens ==
    (pc = "group" \/ (pc = "classify" /\ i = 0)) =>
        LET flat == Flatten(Grouped)
            blanks == { k \in 1..Len(items) : trim(items[k].str) = "" }
        IN  /\ Len(flat) = Len(items) - Cardinality(blanks)
            /\ Len(flat) = Len(Tokens)
            /\ \A k \in 1..Len(flat) :
                  Exposed(flat[k].raw, flat[k].x, flat[k].y, flat[k].fontName)
                    = Exposed(trim(Tokens[k].str), Tokens[k].x, Tokens[k].y,
                              Tokens[k].fontName)
            /\ \A n \in 1..Len(Grouped) : Len(Grouped[n]) >= 1
            /\ lastY = IF Tokens = <<>> THEN NoY ELSE <<Tokens[Len(Tokens)].y>>

(* a fragment of white space, more than 5 away in y, was read between two
   tokens of one row: the two tokens share a line *)
BlankBetweenTokens ==
    /\ pc = "classify"
    /\ i = 0
    /\ Len(items) = 3
    /\ trim(items[2].str) = ""
    /\ Abs(items[2].y - items[1].y) > 5
    /\ Abs(items[3].y - items[2].y) > 5
    /\ Len(lines) = 1
    /\ Len(lines[1]) = 2

-----------------------------------------------------------------------------
(* roles[n] is a line of a Projects section that none of the section's rules
   takes: not a title, no "github.com", not a tech-stack line, no "verify" *)
GenericAt(n) ==
    /\ ~isSectionHeader(roles[n].raw)
    /\ roles[n].section = "Projects"
    /\ roles[n].branch = "default"

(* C16, as claimed: after a line of a Projects section that is printed
   generically, a blank line is printed exactly when the next line is then
   printed as a project title. *)
BlankIffNextIsTitle ==
    pc = "classify" =>
        \A n \in 1..(Len(roles) - 1) :
            GenericAt(n) =>
                LET log == TextsOf(LogOfLine(n - 1))
                    next == TextsOf(LogOfLine(n))
                IN  /\ Len(log) >= 1
                    /\ log[1] = roles[n].formatted
                    /\ (log = <<roles[n].formatted, "">>)
                         <=> (next = <<"", chalkCyanBoldUnderline(roles[n + 1].formatted)>>)

-----------------------------------------------------------------------------
StartsWithKeyword(raw) ==
    \E w \in {"education", "experience", "projects", "skills", "certifications"} :
        startsWith(toLowerCase(raw), w)

(* C17: whatever the section, a line whose raw text starts with one of the five
   keywords (in any case) is handled as a header only: it is printed by one
   call, in the header style, and the education buffer is empty after it; it
   is not put in the buffer and not printed in any other way, even when it
   matches the project-title pattern. *)
HeaderOnly ==
    pc = "classify" =>
        \A n \in 1..Len(roles) :
            StartsWithKeyword(roles[n].raw) =>
                /\ TextsOf(LogOfLine(n - 1)) =
                      <<"\n" \o chalkYellowBoldUnderline(toUpperCase(roles[n].raw))>>
                /\ n = Len(roles) => eduBuffer = <<>>

(* "PROJECTS" was read in a Projects section, where it matches the title
   pattern and the adjacency guard would let a title through *)
HeaderWhereTitleFits ==
    /\ pc = "classify"
    /\ Len(roles) >= 3
    /\ LET n == Len(roles)
       IN  /\ roles[n].raw = "PROJECTS"
           /\ roles[n].section = "Projects"
           /\ isProjectTitle(roles[n].raw)
           /\ roles[n - 1].branch # "projTitle"
           /\ Len(LogOfLine(n - 1)) = 1

-----------------------------------------------------------------------------
(* the tokens of a line are in ascending x order *)
Ascending(line) == \A k \in 1..(Len(line) - 1) : line[k].x <= line[k + 1].x

(* each token after the first starts at most 5 past the estimated end of the
   token before it: its x plus 5 for each character of its text *)
Abutting(line) ==
    \A k \in 2..Len(line) : line[k].x - (line[k - 1].x + 5 * Len(line[k - 1].raw)) <= 5

(* the display texts of the tokens of a line, one after the other *)
RECURSIVE DisplayTexts(_)
DisplayTexts(line) ==
    IF line = <<>> THEN ""
    ELSE (IF isBold(Head(line).fontName) THEN chalkBold(Head(line).str)
          ELSE Head(line).str) \o DisplayTexts(Tail(line))

(* C18: a line whose tokens are in ascending x order, each starting within 5
   of the estimated end of the one before, is formatted as its tokens' display
   texts with nothing between them and nothing before the first; formatting
   it again gives the same string. *)
AbuttingTokensConcatenate ==
    \A n \in 1..Len(lines) :
        (Ascending(lines[n]) /\ Abutting(lines[n])) =>
            /\ formatLineWithSpacing(lines[n]) = DisplayTexts(lines[n])
            /\ formatLineWithSpacing(SortByX(lines[n])) = formatLineWithSpacing(lines[n])
            /\ (pc = "classify" /\ n <= Len(roles)) =>
                  roles[n].formatted = DisplayTexts(lines[n])

(* two lines were formatted: one of two tokens, the second of which starts
   exactly 5 past the estimated end of the first, and one whose only token
   starts more than 10 from the left edge, which earns a tab that the trim
   removes *)
AbuttingPairFormatted ==
    /\ pc = "classify"
    /\ Len(roles) = 2
    /\ \E n, m \in 1..2 :
          /\ Len(lines[n]) = 2
          /\ lines[n][2].x - (lines[n][1].x + 5 * Len(lines[n][1].raw)) = 5
          /\ roles[n].formatted = lines[n][1].str \o lines[n][2].str
          /\ Len(lines[m]) = 1
          /\ lines[m][1].x > 10
          /\ roles[m].formatted = lines[m][1].str

-----------------------------------------------------------------------------
(* C19: on a finite document whose content is delivered the program runs to
   its end: no step fails or stops the loops early (a run that could take no
   step before the end would never reach it), the pages are visited one by
   one in order, each left when its lines have all been through the loop
   once, and in the end the loops are over for good. *)
Terminates ==
    /\ [][pageNum' # pageNum =>
            (pageNum' = pageNum + 1 /\ pc = "classify" /\ i = Len(lines)
             /\ Len(roles) = Len(lines))]_vars
    /\ <>[](pc = "done" /\ pageNum = numPages + 1)

(* the program is over after two pages with lines, among them a page that
   started with white space *)
DoneAfterOddPages ==
    /\ pc = "done"
    /\ pageNum = numPages + 1
    /\ nread = MaxItems
    /\ \E a, b \in 1..Len(out) : out[a].page = 1 /\ out[b].page = 2
    /\ trim(items[1].str) = ""
    /\ Len(lines) >= 1

=============================================================================
